---- MODULE Spec2Model ----
(***************************************************************************)
(* A model of ldscore/parse.py: the filename array notation, the           *)
(* compression probing, the sideways and per-chromosome merges, the cts     *)
(* binner and the annotation overlap matrix.                                *)
(*                                                                          *)
(* Every function of parse.py is a pure function of its arguments and of    *)
(* the readable files, so the state is: the file system (fs: readable path  *)
(* -> parsed contents), the arguments of the call (args), the position      *)
(* (pc: "idle" before the call, the function's name after it) and what the  *)
(* call produced (out: the exception raised, or "None" and the value).      *)
(* File names are strings; tables are records of a column-name sequence     *)
(* and a row sequence.  For the binner, which reads no file, fs holds the   *)
(* one fact of the environment it depends on: whether the installed pandas  *)
(* rejects repeated bin edges.                                              *)
(***************************************************************************)
EXTENDS Integers, Sequences, FiniteSets, TLC

VARIABLES fs, args, pc, out

vars == <<fs, args, pc, out>>

(***************************************************************************)
(* Bounds of the model.                                                     *)
(***************************************************************************)
\* fragments concatenated into a filename pattern
MaxFrags == 3

\* rows of the files of one per-chromosome dataset, all shards together
MaxRows == 2

\* chromosomes of a per-chromosome annotation
MaxChr == 2

\* files of a list given to a sideways merge
MaxFiles == 2

\* breakpoints of one covariate
MaxBreaks == 2

\* covariate columns of a cts table
MaxCov == 2

(***************************************************************************)
(* Results of a call: a raised exception or a returned value.               *)
(***************************************************************************)
Return(v) == [exc |-> "None", val |-> v]

Raise(e) == [exc |-> e, val |-> <<>>]

\* the rest of a function after a call: F of the value the call returned, or
\* the exception it raised, passed on
Bind(r, F(_)) == IF r.exc = "None" THEN F(r.val) ELSE r

Returned(r) == r.exc = "None"

(***************************************************************************)
(* Strings.                                                                 *)
(***************************************************************************)
Ch(s, i) == SubSeq(s, i, i)

Digits == {"0", "1", "2", "3", "4", "5", "6", "7", "8", "9"}

IsDigit(s, i) == i >= 1 /\ i <= Len(s) /\ Ch(s, i) \in Digits

IsCh(s, i, c) == i >= 1 /\ i <= Len(s) /\ Ch(s, i) = c

\* \d+ from position p, greedy: the position after the longest run of digits
\* (p itself when s[p] is no digit).
RECURSIVE DigitsEnd(_, _)
DigitsEnd(s, p) == IF IsDigit(s, p) THEN DigitsEnd(s, p + 1) ELSE p

\* str.endswith
endswith(s, suf) ==
    Len(s) >= Len(suf) /\ SubSeq(s, Len(s) - Len(suf) + 1, Len(s)) = suf

DigitVal(c) ==
    CASE c = "0" -> 0 [] c = "1" -> 1 [] c = "2" -> 2 [] c = "3" -> 3
      [] c = "4" -> 4 [] c = "5" -> 5 [] c = "6" -> 6 [] c = "7" -> 7
      [] c = "8" -> 8 [] c = "9" -> 9

\* int(s) of a decimal digit string
RECURSIVE int(_)
int(s) ==
    IF Len(s) = 0 THEN 0
    ELSE 10 * int(SubSeq(s, 1, Len(s) - 1)) + DigitVal(Ch(s, Len(s)))

\* str(i) of an integer
str(i) == ToString(i)

(***************************************************************************)
(* The three regular expressions (parse.py 13-15).  Each XxxAt(s, p) is the *)
(* position of the last character of the match starting at p, 0 if none.    *)
(***************************************************************************)
\* arr_re = '\{\d+:\d+\}'
arr_re_At(s, p) ==
    IF ~IsCh(s, p, "{") THEN 0
    ELSE LET q == DigitsEnd(s, p + 1) IN
         IF q = p + 1 \/ ~IsCh(s, q, ":") THEN 0
         ELSE LET r == DigitsEnd(s, q + 1) IN
              IF r = q + 1 \/ ~IsCh(s, r, "}") THEN 0 ELSE r

\* arr_left_re = '\{\d+:'
arr_left_re_At(s, p) ==
    IF ~IsCh(s, p, "{") THEN 0
    ELSE LET q == DigitsEnd(s, p + 1) IN
         IF q = p + 1 \/ ~IsCh(s, q, ":") THEN 0 ELSE q

\* arr_right_re = ':\d+\}'
arr_right_re_At(s, p) ==
    IF ~IsCh(s, p, ":") THEN 0
    ELSE LET q == DigitsEnd(s, p + 1) IN
         IF q = p + 1 \/ ~IsCh(s, q, "}") THEN 0 ELSE q

\* arr_re.findall(s): the non-overlapping matches, leftmost first, each as
\* <<first, last>> positions.
RECURSIVE arr_re_findall_from(_, _)
arr_re_findall_from(s, p) ==
    IF p > Len(s) THEN <<>>
    ELSE LET e == arr_re_At(s, p) IN
         IF e = 0 THEN arr_re_findall_from(s, p + 1)
         ELSE <<<<p, e>>>> \o arr_re_findall_from(s, e + 1)

arr_re_findall(s) == arr_re_findall_from(s, 1)

\* arr_left_re.search(s).group(0): the leftmost match of '\{\d+:' in s
RECURSIVE arr_left_re_search_from(_, _)
arr_left_re_search_from(s, p) ==
    IF p > Len(s) THEN ""
    ELSE LET e == arr_left_re_At(s, p) IN
         IF e = 0 THEN arr_left_re_search_from(s, p + 1) ELSE SubSeq(s, p, e)

arr_left_re_search(s) == arr_left_re_search_from(s, 1)

\* arr_right_re.search(s).group(0): the leftmost match of ':\d+\}' in s
RECURSIVE arr_right_re_search_from(_, _)
arr_right_re_search_from(s, p) ==
    IF p > Len(s) THEN ""
    ELSE LET e == arr_right_re_At(s, p) IN
         IF e = 0 THEN arr_right_re_search_from(s, p + 1) ELSE SubSeq(s, p, e)

arr_right_re_search(s) == arr_right_re_search_from(s, 1)

\* arr_re.sub(repl, s): every match replaced by repl
RECURSIVE arr_re_sub_from(_, _, _)
arr_re_sub_from(repl, s, p) ==
    IF p > Len(s) THEN ""
    ELSE LET e == arr_re_At(s, p) IN
         IF e = 0 THEN Ch(s, p) \o arr_re_sub_from(repl, s, p + 1)
         ELSE repl \o arr_re_sub_from(repl, s, e + 1)

arr_re_sub(repl, s) == arr_re_sub_from(repl, s, 1)

\* xrange(lo, hi) as a sequence
xrange(lo, hi) == [k \in 1..(IF hi > lo THEN hi - lo ELSE 0) |-> lo + k - 1]

\* s[1:-1]
Inner(s) == SubSeq(s, 2, Len(s) - 1)

(***************************************************************************)
(* exp_array (parse.py 18-28).                                              *)
(***************************************************************************)
exp_array(fh) ==
    LET arr == arr_re_findall(fh) IN
    IF Len(arr) > 1 THEN Raise("ValueError")
    ELSE IF Len(arr) = 0 THEN Return(<<fh>>)
    ELSE LET lo == int(Inner(arr_left_re_search(fh)))
             hi == int(Inner(arr_right_re_search(fh)))
             r == xrange(lo, hi)
         IN Return([k \in 1..Len(r) |-> arr_re_sub(str(r[k]), fh)])

(***************************************************************************)
(* os.access(path, 4): the path is a readable file.                         *)
(***************************************************************************)
access(path) == path \in DOMAIN fs

\* (mutant of which_compression: gzip probed before bz2)
which_compression_gz_first(fh) ==
    IF access(fh \o ".gz") THEN Return(<<".gz", "gzip">>)
    ELSE IF access(fh \o ".bz2") THEN Return(<<".bz2", "bz2">>)
    ELSE IF access(fh) THEN Return(<<"", "None">>)
    ELSE Raise("IOError")

(***************************************************************************)
(* which_compression (parse.py 41-54): the value is <<suffix, compression>>.*)
(***************************************************************************)
which_compression(fh) ==
    IF access(fh \o ".bz2") THEN Return(<<".bz2", "bz2">>)
    ELSE IF access(fh \o ".gz") THEN Return(<<".gz", "gzip">>)
    ELSE IF access(fh) THEN Return(<<"", "None">>)
    ELSE Raise("IOError")

(***************************************************************************)
(* get_compression (parse.py 57-65).                                        *)
(***************************************************************************)
get_compression(fh) ==
    IF endswith(fh, "gz") THEN "gzip"
    ELSE IF endswith(fh, "bz2") THEN "bz2"
    ELSE "None"

(***************************************************************************)
(* Data frames.  A frame is [columns |-> the column names in order, rows    *)
(* |-> the rows in order, each a tuple of values in column order].  A frame *)
(* read from one file has the index 0..n-1, so frames of equal length are   *)
(* aligned row by row.                                                      *)
(***************************************************************************)
Frame(cols, rows) == [columns |-> cols, rows |-> rows]

\* the value is a DataFrame (and not a tuple or a number)
IsFrame(v) == "columns" \in DOMAIN v

Range(f) == {f[i] : i \in DOMAIN f}

HasCol(df, c) == c \in Range(df.columns)

ColIndex(df, c) == CHOOSE i \in 1..Len(df.columns) : df.columns[i] = c

\* df.c / df[c]: one column as a series
Column(df, c) == [r \in 1..Len(df.rows) |-> df.rows[r][ColIndex(df, c)]]

\* df.ix[:, i]: the column at (one-based) position i
ColumnAt(df, i) == [r \in 1..Len(df.rows) |-> df.rows[r][i]]

\* the subsequence of s at the positions satisfying Keep, in order
RECURSIVE KeepIdx(_, _)
KeepIdx(n, keep) ==
    IF n = 0 THEN <<>>
    ELSE IF n \in keep THEN Append(KeepIdx(n - 1, keep), n)
    ELSE KeepIdx(n - 1, keep)

Select(s, keep) == LET ix == KeepIdx(Len(s), keep) IN [k \in 1..Len(ix) |-> s[ix[k]]]

\* df.drop(labels, axis=1), the labels being columns of df
drop(df, labels) ==
    LET keep == {i \in 1..Len(df.columns) : df.columns[i] \notin labels} IN
    Frame(Select(df.columns, keep),
          [r \in 1..Len(df.rows) |-> Select(df.rows[r], keep)])

\* df.rename(columns={c: c + suffix for c in columns if c != 'SNP'})
rename_suffix(df, suffix) ==
    Frame([i \in 1..Len(df.columns) |->
              IF df.columns[i] # "SNP" THEN df.columns[i] \o suffix
              ELSE df.columns[i]],
          df.rows)

\* pd.concat(objs) of frames with the same columns: the rows stacked
RECURSIVE StackRows(_)
StackRows(objs) ==
    IF Len(objs) = 0 THEN <<>> ELSE Head(objs).rows \o StackRows(Tail(objs))

\* pd.concat(objs, axis=1) of frames of equal length: the columns side by side
RECURSIVE SideCols(_)
SideCols(objs) ==
    IF Len(objs) = 0 THEN <<>> ELSE Head(objs).columns \o SideCols(Tail(objs))

RECURSIVE SideRow(_, _)
SideRow(objs, r) ==
    IF Len(objs) = 0 THEN <<>> ELSE Head(objs).rows[r] \o SideRow(Tail(objs), r)

\* (CHR, BP) of row a sorts strictly before that of row b
KeyLess(df, a, b) ==
    LET c == ColIndex(df, "CHR")
        p == ColIndex(df, "BP")
    IN a[c] < b[c] \/ (a[c] = b[c] /\ a[p] < b[p])

\* one row inserted into sorted rows, after the rows it ties with
RECURSIVE InsertRow(_, _, _)
InsertRow(df, sorted, row) ==
    IF Len(sorted) = 0 THEN <<row>>
    ELSE IF KeyLess(df, row, Head(sorted)) THEN <<row>> \o sorted
    ELSE <<Head(sorted)>> \o InsertRow(df, Tail(sorted), row)

RECURSIVE SortRows(_, _)
SortRows(df, rows) ==
    IF Len(rows) = 0 THEN <<>>
    ELSE InsertRow(df, SortRows(df, SubSeq(rows, 1, Len(rows) - 1)), rows[Len(rows)])

\* df.sort(['CHR', 'BP']): a lexsort, which is stable
sort_CHR_BP(df) == Frame(df.columns, SortRows(df, df.rows))

\* df.drop_duplicates(subset='SNP'): the first row of every SNP kept
drop_duplicates_SNP(df) ==
    LET c == ColIndex(df, "SNP")
        first == {r \in 1..Len(df.rows) :
                     \A q \in 1..(r - 1) : df.rows[q][c] # df.rows[r][c]}
    IN Frame(df.columns, Select(df.rows, first))

(***************************************************************************)
(* series_eq (parse.py 31-33).                                              *)
(***************************************************************************)
\* (mutant of series_eq: the same values in any order)
series_eq_any_order(x, y) == Len(x) = Len(y) /\ Range(x) = Range(y)

series_eq(x, y) == Len(x) = Len(y) /\ \A k \in 1..Len(x) : x[k] = y[k]

(***************************************************************************)
(* read_csv (parse.py 36-38) on the parsed contents of the file: an         *)
(* unreadable path and a codec that is not the file's both fail.            *)
(***************************************************************************)
read_csv(fh, compression) ==
    IF ~access(fh) THEN Raise("IOError")
    ELSE IF fs[fh].codec # compression
         THEN Raise(IF compression = "None" THEN "CParserError" ELSE "IOError")
    ELSE Return(fs[fh].table)

(***************************************************************************)
(* _ldscore_single (parse.py 162-167).                                      *)
(***************************************************************************)
_ldscore_single(fh, compression) ==
    Bind(read_csv(fh, compression), LAMBDA x :
        IF HasCol(x, "MAF") /\ HasCol(x, "CM")
        THEN Return(drop(x, {"MAF", "CM"}))
        ELSE Return(x))

(***************************************************************************)
(* The list [0 for _ in xrange(n)] and its slots: a slot holds the 0 it was *)
(* made with or the frame assigned to it.                                   *)
(***************************************************************************)
Zero == [int |-> 0]

Zeros(n) == [k \in 1..n |-> Zero]

\* pd.concat(objs): no objects is a ValueError, a non-frame among them a
\* TypeError
concat(objs) ==
    IF Len(objs) = 0 THEN Raise("ValueError")
    ELSE IF \E k \in 1..Len(objs) : ~IsFrame(objs[k]) THEN Raise("TypeError")
    ELSE Return(Frame(objs[1].columns, StackRows(objs)))

\* pd.concat(objs, axis=1)
concat_axis1(objs) ==
    IF Len(objs) = 0 THEN Raise("ValueError")
    ELSE IF \E k \in 1..Len(objs) : ~IsFrame(objs[k]) THEN Raise("TypeError")
    ELSE Return(Frame(SideCols(objs),
                      [r \in 1..Len(objs[1].rows) |-> SideRow(objs, r)]))

(***************************************************************************)
(* _ldscore_chr (parse.py 170-182).  The loop body for the (zero-based)     *)
(* i-th expanded name, then the merge.                                      *)
(***************************************************************************)
RECURSIVE _ldscore_chr_loop(_, _, _)
_ldscore_chr_loop(fhs, i, chr_ld) ==
    IF i >= Len(fhs) THEN Return(chr_ld)
    ELSE Bind(which_compression(fhs[i + 1] \o ".l2.ldscore"), LAMBDA w :
         Bind(_ldscore_single(fhs[i + 1] \o ".l2.ldscore" \o w[1], w[2]), LAMBDA x :
              IF i >= Len(chr_ld) THEN Raise("IndexError")
              ELSE _ldscore_chr_loop(fhs, i + 1, [chr_ld EXCEPT ![i + 1] = x])))

_ldscore_chr(fh) ==
    Bind(exp_array(fh), LAMBDA fhs :
    Bind(_ldscore_chr_loop(fhs, 0, Zeros(Len(fh))), LAMBDA chr_ld :
    Bind(concat(chr_ld), LAMBDA x :
         IF ~HasCol(x, "CHR") \/ ~HasCol(x, "BP") THEN Raise("KeyError")
         ELSE IF ~HasCol(x, "SNP") THEN Raise("KeyError")
         ELSE Return(drop_duplicates_SNP(drop(sort_CHR_BP(x), {"CHR", "BP"}))))))

(***************************************************************************)
(* _cts_chr (parse.py 109-117).                                             *)
(***************************************************************************)
RECURSIVE _cts_chr_loop(_, _, _)
_cts_chr_loop(fhs, i, chr_cts) ==
    IF i >= Len(fhs) THEN Return(chr_cts)
    ELSE Bind(which_compression(fhs[i + 1]), LAMBDA w :
         Bind(_ldscore_single(fhs[i + 1], w[2]), LAMBDA x :
              IF i >= Len(chr_cts) THEN Raise("IndexError")
              ELSE _cts_chr_loop(fhs, i + 1, [chr_cts EXCEPT ![i + 1] = x])))

_cts_chr(fh) ==
    Bind(exp_array(fh), LAMBDA fhs :
    Bind(_cts_chr_loop(fhs, 0, Zeros(Len(fh))), LAMBDA chr_cts :
         concat(chr_cts)))

(***************************************************************************)
(* Optional arguments: None is <<>>, a given value v is <<v>>.              *)
(***************************************************************************)
None == <<>>

Some(v) == <<v>>

(***************************************************************************)
(* Matrices: [shape |-> <<rows, columns>>, m |-> the rows].                 *)
(***************************************************************************)
Matrix(nr, nc, m) == [shape |-> <<nr, nc>>, m |-> m]

\* np.matrix(df.ix[:, 1:]): all columns but the first
matrix_ix_1(df) ==
    Matrix(Len(df.rows), Len(df.columns) - 1,
           [r \in 1..Len(df.rows) |-> Tail(df.rows[r])])

RECURSIVE HstackRow(_, _)
HstackRow(ms, r) ==
    IF Len(ms) = 0 THEN <<>> ELSE Head(ms).m[r] \o HstackRow(Tail(ms), r)

RECURSIVE SumCols(_)
SumCols(ms) == IF Len(ms) = 0 THEN 0 ELSE Head(ms).shape[2] + SumCols(Tail(ms))

\* np.hstack(ms): nothing to stack and unequal row counts are ValueErrors
hstack(ms) ==
    IF Len(ms) = 0 THEN Raise("ValueError")
    ELSE IF \E k \in 1..Len(ms) : ms[k].shape[1] # ms[1].shape[1]
         THEN Raise("ValueError")
    ELSE Return(Matrix(ms[1].shape[1], SumCols(ms),
                       [r \in 1..ms[1].shape[1] |-> HstackRow(ms, r)]))

RECURSIVE ColDot(_, _, _, _)
ColDot(a, i, j, r) ==
    IF r = 0 THEN 0 ELSE a.m[r][i] * a.m[r][j] + ColDot(a, i, j, r - 1)

\* np.dot(a.T, a)
dot_T(a) ==
    Matrix(a.shape[2], a.shape[2],
           [i \in 1..a.shape[2] |-> [j \in 1..a.shape[2] |->
               ColDot(a, i, j, a.shape[1])]])

\* x + y of two matrices of one shape
MatAdd(x, y) ==
    Matrix(x.shape[1], x.shape[2],
           [i \in 1..x.shape[1] |-> [j \in 1..x.shape[2] |-> x.m[i][j] + y.m[i][j]]])

\* sum(y): 0 + y[0] + y[1] + ...; the sum of no matrices is the number 0
RECURSIVE MatSum(_)
MatSum(y) ==
    IF Len(y) = 0 THEN Return([int |-> 0])
    ELSE IF Len(y) = 1 THEN Return(y[1])
    ELSE Bind(MatSum(SubSeq(y, 1, Len(y) - 1)), LAMBDA rest :
         IF rest.shape # y[Len(y)].shape THEN Raise("ValueError")
         ELSE Return(MatAdd(rest, y[Len(y)])))

(***************************************************************************)
(* frq_parser (parse.py 226-231).                                           *)
(***************************************************************************)
frq_parser(fh, compression) ==
    Bind(read_csv(fh, compression), LAMBDA df :
        LET renamed ==
                IF HasCol(df, "MAF")
                THEN Frame([i \in 1..Len(df.columns) |->
                               IF df.columns[i] = "MAF" THEN "FRQ"
                               ELSE df.columns[i]], df.rows)
                ELSE df
        IN IF ~HasCol(renamed, "SNP") \/ ~HasCol(renamed, "FRQ")
           THEN Raise("KeyError")
           ELSE Return(Frame(<<"SNP", "FRQ">>,
                   [r \in 1..Len(renamed.rows) |->
                       <<renamed.rows[r][ColIndex(renamed, "SNP")],
                         renamed.rows[r][ColIndex(renamed, "FRQ")]>>])))

(***************************************************************************)
(* annot_parser (parse.py 214-223).  Frequencies are held in percent, so    *)
(* the filter .95 > FRQ > 0.05 reads 95 > FRQ > 5.                          *)
(***************************************************************************)
annot_parser(fh, compression, frqfile, compression_frq) ==
    Bind(read_csv(fh, compression), LAMBDA raw :
        IF ~({"CHR", "BP", "CM"} \subseteq Range(raw.columns))
        THEN Raise("ValueError")
        ELSE IF frqfile = None THEN Return(drop(raw, {"CHR", "BP", "CM"}))
        ELSE Bind(frq_parser(frqfile[1], compression_frq), LAMBDA df_frq :
             LET df_annot == drop(raw, {"CHR", "BP", "CM"}) IN
             IF ~HasCol(df_annot, "SNP") THEN Raise("AttributeError")
             ELSE IF ~series_eq(Column(df_frq, "SNP"), Column(df_annot, "SNP"))
                  THEN Raise("ValueError")
             ELSE LET frq == Column(df_frq, "FRQ")
                      keep == {r \in 1..Len(frq) : 95 > frq[r] /\ frq[r] > 5}
                  IN Return(Frame(df_annot.columns, Select(df_annot.rows, keep)))))

(***************************************************************************)
(* sub_chr: parse.py calls it (lines 240, 246, 253, 254, 257) and neither   *)
(* defines nor imports it, so evaluating the name raises NameError.         *)
(***************************************************************************)
sub_chr(s, chr) == Raise("NameError")

(***************************************************************************)
(* annot (parse.py 234-283).                                                *)
(***************************************************************************)
\* the name of a file set: fh itself, or sub_chr(fh, chr) for chromosome chr
set_name(fh, chr) == IF chr = None THEN Return(fh) ELSE sub_chr(fh, chr[1])

\* the loops that probe the compression of every annot file (239-243 with
\* chr = <<1>>, 265-268 with chr = None): the value is the list of
\* <<annot_suffix[i], annot_compression[i]>>
RECURSIVE annot_probe(_, _, _)
annot_probe(fh_list, chr, i) ==
    IF i > Len(fh_list) THEN Return(<<>>)
    ELSE Bind(set_name(fh_list[i], chr), LAMBDA name :
         Bind(which_compression(name \o ".annot"), LAMBDA w :
         Bind(annot_probe(fh_list, chr, i + 1), LAMBDA rest :
              Return(<<<<".annot" \o w[1], w[2]>>>> \o rest))))

\* the probe of the frequency file (244-248, 269-272): <<frq_suffix,
\* frq_compression>>, or None without a frequency file
frq_probe(frqfile, chr) ==
    IF frqfile = None THEN Return(None)
    ELSE Bind(set_name(frqfile[1], chr), LAMBDA name :
         Bind(which_compression(name \o ".frq"), LAMBDA w :
              Return(<<".frq" \o w[1], w[2]>>)))

\* the list comprehensions of annot_parser calls (253-258, 273-277)
RECURSIVE annot_parse_all(_, _, _, _, _, _)
annot_parse_all(fh_list, chr, sfx, frqfile, frq, i) ==
    IF i > Len(fh_list) THEN Return(<<>>)
    ELSE Bind(set_name(fh_list[i], chr), LAMBDA name :
         Bind(IF frqfile = None THEN Return("")
              ELSE set_name(frqfile[1], chr), LAMBDA frqname :
         Bind(annot_parser(name \o sfx[i][1], sfx[i][2],
                           IF frqfile = None THEN None ELSE Some(frqname \o frq[1]),
                           IF frqfile = None THEN "None" ELSE frq[2]), LAMBDA df :
         Bind(annot_parse_all(fh_list, chr, sfx, frqfile, frq, i + 1), LAMBDA rest :
              Return(<<df>> \o rest)))))

\* one overlap matrix and row count (259-262, 278-281)
annot_overlap(fh_list, chr, sfx, frqfile, frq) ==
    Bind(annot_parse_all(fh_list, chr, sfx, frqfile, frq, 1), LAMBDA dfs :
    Bind(hstack([k \in 1..Len(dfs) |-> matrix_ix_1(dfs[k])]), LAMBDA annot_matrix :
         Return([x |-> dot_T(annot_matrix), M_tot |-> Len(dfs[1].rows)])))

\* for chr in xrange(from, num + 1): y.append(...); M_tot += ...
RECURSIVE annot_chr_loop(_, _, _, _, _, _)
annot_chr_loop(fh_list, chr, num, sfx, frqfile, frq) ==
    IF chr > num THEN Return([y |-> <<>>, M_tot |-> 0])
    ELSE Bind(annot_overlap(fh_list, Some(chr), sfx, frqfile, frq), LAMBDA one :
         Bind(annot_chr_loop(fh_list, chr + 1, num, sfx, frqfile, frq), LAMBDA rest :
              Return([y |-> <<one.x>> \o rest.y, M_tot |-> one.M_tot + rest.M_tot])))

annot(fh_list, num, frqfile) ==
    Bind(annot_probe(fh_list, IF num = None THEN None ELSE Some(1), 1), LAMBDA sfx :
    Bind(frq_probe(frqfile, IF num = None THEN None ELSE Some(1)), LAMBDA frq :
         IF num = None THEN annot_overlap(fh_list, None, sfx, frqfile, frq)
         ELSE Bind(annot_chr_loop(fh_list, 1, num[1], sfx, frqfile, frq), LAMBDA all :
              Bind(MatSum(all.y), LAMBDA x :
                   Return([x |-> x, M_tot |-> all.M_tot])))))

(***************************************************************************)
(* _read_fromlist (parse.py 84-97).                                         *)
(***************************************************************************)
\* the characters of a string: what iterating over it yields
Chars(str_) == [i \in 1..Len(str_) |-> Ch(str_, i)]

\* parsefunc(fh, *args, **kwargs): the call binds fh, args and kwargs to the
\* parameters of the function, and a wrong number of arguments is a
\* TypeError.  _ldscore_single(fh, compression), _cts_single(fh, compression),
\* _cts_chr(fh), annot(fh_list, num=None, frqfile=None).
parsefunc_call(parsefunc, fh, a, kw) ==
    CASE parsefunc = "_ldscore_single" ->
            IF Len(a) # 1 \/ DOMAIN kw # {} THEN Raise("TypeError")
            ELSE _ldscore_single(fh, a[1])
      [] parsefunc = "_cts_chr" ->
            IF Len(a) # 0 \/ DOMAIN kw # {} THEN Raise("TypeError")
            ELSE _cts_chr(fh)
      [] parsefunc = "annot" ->
            IF Len(a) # 0 \/ DOMAIN kw # {"frqfile"} THEN Raise("TypeError")
            ELSE annot(Chars(fh), None, kw.frqfile)

\* the loop body from i (zero-based) on, df_array holding the frames so far
RECURSIVE _read_fromlist_loop(_, _, _, _, _, _)
_read_fromlist_loop(flist, parsefunc, a, kw, i, df_array) ==
    IF i >= Len(flist) THEN Return(df_array)
    ELSE Bind(parsefunc_call(parsefunc, flist[i + 1], a, kw), LAMBDA y :
         IF ~IsFrame(y) THEN Raise("AttributeError")
         ELSE IF i > 0 /\ (~HasCol(y, "SNP") \/ ~HasCol(df_array[1], "SNP"))
              THEN Raise("AttributeError")
         ELSE IF i > 0 /\ ~series_eq(Column(y, "SNP"), Column(df_array[1], "SNP"))
              THEN Raise("ValueError")
         ELSE _read_fromlist_loop(flist, parsefunc, a, kw, i + 1,
                  Append(df_array,
                         rename_suffix(IF i > 0 THEN drop(y, {"SNP"}) ELSE y,
                                       "_" \o str(i)))))

_read_fromlist(flist, parsefunc, noun, a, kw) ==
    Bind(_read_fromlist_loop(flist, parsefunc, a, kw, 0, <<>>), LAMBDA df_array :
         concat_axis1(df_array))

(***************************************************************************)
(* cts_fromlist (120-122), ldscore_fromlist (185-187), annot_fromlist       *)
(* (286-287).                                                               *)
(***************************************************************************)
cts_fromlist(flist) == _read_fromlist(flist, "_cts_chr", "--cts-bin", <<>>, <<>>)

ldscore_fromlist(flist) ==
    _read_fromlist(flist, "_ldscore_single", "LD Score", <<>>, <<>>)

annot_fromlist(flist, frqfile) ==
    _read_fromlist(flist, "annot", "Annot", <<>>, [frqfile |-> frqfile])

(***************************************************************************)
(* The cts binner.  A series is [dtype |-> "int64" or "object", values |->  *)
(* the values]; a cts frame carries the dtype of every column.              *)
(***************************************************************************)
Series(dtype, values) == [dtype |-> dtype, values |-> values]

\* cts.ix[:, i] for the zero-based position i
ix_column(cts, i) == Series(cts.dtypes[i + 1], ColumnAt(cts, i + 1))

Max(S) == CHOOSE x \in S : \A y \in S : y <= x

Min(S) == CHOOSE x \in S : \A y \in S : x <= y

\* np.max(vec), np.min(vec): of strings, a string
np_max(vec) ==
    IF vec.dtype = "object" THEN [is_str |-> TRUE, v |-> 0]
    ELSE [is_str |-> FALSE, v |-> Max(Range(vec.values))]

np_min(vec) ==
    IF vec.dtype = "object" THEN [is_str |-> TRUE, v |-> 0]
    ELSE [is_str |-> FALSE, v |-> Min(Range(vec.values))]

\* np.all(cut_breaks >= x): a numpy number compares with every element; a
\* str compares with the list as a whole, and Python 2 orders a list before
\* a str, so the list is never >= and always <= the str
all_ge(cut_breaks, x) ==
    IF x.is_str THEN FALSE ELSE \A k \in 1..Len(cut_breaks) : cut_breaks[k] >= x.v

all_le(cut_breaks, x) ==
    IF x.is_str THEN TRUE ELSE \A k \in 1..Len(cut_breaks) : cut_breaks[k] <= x.v

\* sorted(q) of numbers
RECURSIVE InsertNum(_, _)
InsertNum(q, x) ==
    IF Len(q) = 0 THEN <<x>>
    ELSE IF x < Head(q) THEN <<x>> \o q
    ELSE <<Head(q)>> \o InsertNum(Tail(q), x)

RECURSIVE sorted(_)
sorted(q) ==
    IF Len(q) = 0 THEN <<>> ELSE InsertNum(sorted(SubSeq(q, 1, Len(q) - 1)), q[Len(q)])

\* the missing value
NaN == "NaN"

\* the check pd.cut makes of sorted bins: the pandas of the code's time
\* rejects only decreasing bins, a later one (still with .ix) also equal
\* ones; which pandas is installed is part of the environment fs
monotonic(bins) ==
    \A j \in 1..(Len(bins) - 1) :
        IF fs.pandas_unique_bins THEN bins[j] < bins[j + 1] ELSE bins[j] <= bins[j + 1]

\* (mutant of pd_cut: right=False, the bins closed on the left)
pd_cut_left_closed(values, bins, labels) ==
    IF ~monotonic(bins) THEN Raise("ValueError")
    ELSE IF Len(labels) # Len(bins) - 1 THEN Raise("ValueError")
    ELSE Return([r \in 1..Len(values) |->
            IF \E j \in 1..(Len(bins) - 1) : bins[j] <= values[r] /\ values[r] < bins[j + 1]
            THEN labels[CHOOSE j \in 1..(Len(bins) - 1) :
                            bins[j] <= values[r] /\ values[r] < bins[j + 1]]
            ELSE NaN])

\* pd.cut(values, bins=bins, labels=labels) as parse.py 141 calls it, with
\* the defaults right=True, include_lowest=False: bin j is (bins[j],
\* bins[j+1]], a value in no bin is missing
pd_cut(values, bins, labels) ==
    IF ~monotonic(bins) THEN Raise("ValueError")
    ELSE IF Len(labels) # Len(bins) - 1 THEN Raise("ValueError")
    ELSE Return([r \in 1..Len(values) |->
            IF \E j \in 1..(Len(bins) - 1) : bins[j] < values[r] /\ values[r] <= bins[j + 1]
            THEN labels[CHOOSE j \in 1..(Len(bins) - 1) :
                            bins[j] < values[r] /\ values[r] <= bins[j + 1]]
            ELSE NaN])

\* (mutant of lower_sentinel: the cut at the minimum itself)
lower_sentinel_at_min(min_cts) == min_cts

\* the cut appended below the data (parse.py 136)
lower_sentinel(min_cts) == min_cts - 1

\* the cut appended above the data (parse.py 133)
upper_sentinel(max_cts) == max_cts + 1

\* ['min'] + map(str, sorted(name_breaks)[1:-1]) + ['max']
bound_names(name_breaks) ==
    LET srt == sorted(name_breaks)
        mid == IF Len(srt) >= 2 THEN SubSeq(srt, 2, Len(srt) - 1) ELSE <<>>
    IN <<"min">> \o [k \in 1..Len(mid) |-> str(mid[k])] \o <<"max">>

(***************************************************************************)
(* _cut_cts (parse.py 125-142): the value is the categorical series, its    *)
(* label per row and its levels.                                            *)
(***************************************************************************)
_cut_cts(vec, breaks, n) ==
    LET max_cts == np_max(vec)
        min_cts == np_min(vec)
    IN IF all_ge(breaks, max_cts) \/ all_le(breaks, min_cts) THEN Raise("ValueError")
       ELSE LET up == all_le(breaks, max_cts)
                name1 == IF up THEN Append(breaks, max_cts.v) ELSE breaks
                cut1 == IF up THEN Append(breaks, upper_sentinel(max_cts.v)) ELSE breaks
                low == all_ge(cut1, min_cts)
                name2 == IF low THEN Append(name1, min_cts.v) ELSE name1
                cut_breaks == IF low THEN Append(cut1, lower_sentinel(min_cts.v)) ELSE cut1
                name_breaks == bound_names(name2)
                levels == [i \in 1..(Len(cut_breaks) - 1) |->
                              n \o name_breaks[i] \o "_" \o name_breaks[i + 1]]
                cut_vec == pd_cut(vec.values, sorted(cut_breaks), levels)
            IN IF ~Returned(cut_vec) THEN cut_vec
               ELSE Return([values |-> cut_vec.val, levels |-> levels])

\* (mutant of get_dummies: drop_first=True, no column for the first level)
get_dummies_drop_first(cut_vec) ==
    Frame(Tail(cut_vec.levels),
          [r \in 1..Len(cut_vec.values) |->
              [j \in 1..(Len(cut_vec.levels) - 1) |->
                  IF cut_vec.values[r] = cut_vec.levels[j + 1] THEN 1 ELSE 0]])

\* pd.get_dummies(cut_vec): one indicator column per level
get_dummies(cut_vec) ==
    Frame(cut_vec.levels,
          [r \in 1..Len(cut_vec.values) |->
              [j \in 1..Len(cut_vec.levels) |->
                  IF cut_vec.values[r] = cut_vec.levels[j] THEN 1 ELSE 0]])

RECURSIVE SumSeq(_)
SumSeq(q) == IF Len(q) = 0 THEN 0 ELSE Head(q) + SumSeq(Tail(q))

(***************************************************************************)
(* cts_dummies (parse.py 145-157), names=None.                              *)
(***************************************************************************)
\* the loop: for i, br, n in zip(range(len(breaks)), breaks, names), from the
\* zero-based i on
RECURSIVE cts_dummies_loop(_, _, _, _)
cts_dummies_loop(cts, breaks, names, i) ==
    IF i >= Len(breaks) \/ i >= Len(names) THEN Return(<<>>)
    ELSE Bind(_cut_cts(ix_column(cts, i), breaks[i + 1], names[i + 1]), LAMBDA cut :
         Bind(cts_dummies_loop(cts, breaks, names, i + 1), LAMBDA rest :
              Return(<<get_dummies(cut)>> \o rest)))

cts_dummies(cts, breaks) ==
    IF Len(breaks) # Len(cts.columns) - 1 THEN Raise("ValueError")
    ELSE LET names == cts.columns
             dummies == cts_dummies_loop(cts, breaks, names, 0)
         IN IF ~Returned(dummies) THEN dummies
            ELSE IF ~HasCol(cts, "SNP") THEN Raise("AttributeError")
            ELSE LET snp == ColIndex(cts, "SNP")
                     key == Frame(<<"SNP">>,
                                  [r \in 1..Len(cts.rows) |-> <<cts.rows[r][snp]>>])
                     all == concat_axis1(<<key>> \o dummies.val).val
                     \* cts.sum(axis=1): over the numeric columns
                     total(r) == SumSeq(Tail(all.rows[r]))
                                 + (IF cts.dtypes[snp] = "int64"
                                    THEN all.rows[r][1] ELSE 0)
                 IN IF \E r \in 1..Len(all.rows) : total(r) = 0
                    THEN Raise("ValueError")
                    ELSE Return(all)

(***************************************************************************)
(* Filename patterns: up to MaxFrags fragments, among them whole markers,   *)
(* halves of markers and plain text.                                        *)
(***************************************************************************)
Frags == {"chr", "{1:3}", "{2:2}", "{3:1}", "{10:12}", "{3:", ":1}"}

RECURSIVE Join(_)
Join(fr) == IF Len(fr) = 0 THEN "" ELSE Head(fr) \o Join(Tail(fr))

SeqsUpTo(S, n) == UNION {[1..k -> S] : k \in 0..n}

Patterns == {Join(fr) : fr \in SeqsUpTo(Frags, MaxFrags)}

Suffixes == {"", ".gz", ".bz2"}

(***************************************************************************)
(* Specification of the path functions: a pattern, and any combination of   *)
(* readable files among the pattern itself, pattern.gz and pattern.bz2.     *)
(***************************************************************************)
InitPath ==
    /\ pc = "idle"
    /\ out = Raise("NotCalled")
    /\ \E fh \in Patterns, S \in SUBSET Suffixes :
          /\ args = [fh |-> fh]
          /\ fs = [p \in {fh \o s : s \in S} |-> "data"]

ExpArray ==
    /\ pc = "idle"
    /\ pc' = "exp_array"
    /\ out' = exp_array(args.fh)
    /\ UNCHANGED <<fs, args>>

WhichCompression ==
    /\ pc = "idle"
    /\ pc' = "which_compression"
    /\ out' = which_compression(args.fh)
    /\ UNCHANGED <<fs, args>>

GetCompression ==
    /\ pc = "idle"
    /\ pc' = "get_compression"
    /\ out' = Return(get_compression(args.fh))
    /\ UNCHANGED <<fs, args>>

NextPath == ExpArray \/ WhichCompression \/ GetCompression

SpecPath == InitPath /\ [][NextPath]_vars

(***************************************************************************)
(* Path expansion and compression probing: the claims.                      *)
(***************************************************************************)
\* The text of the one range marker {lo:hi} of fh, and fh around it.
MarkerSpan(fh) == arr_re_findall(fh)[1]

MarkerText(fh) == SubSeq(fh, MarkerSpan(fh)[1], MarkerSpan(fh)[2])

BeforeMarker(fh) == SubSeq(fh, 1, MarkerSpan(fh)[1] - 1)

AfterMarker(fh) == SubSeq(fh, MarkerSpan(fh)[2] + 1, Len(fh))

\* lo and hi of the marker itself: the digits before and after its colon
MarkerColon(fh) == DigitsEnd(MarkerText(fh), 2)

MarkerLo(fh) == int(SubSeq(MarkerText(fh), 2, MarkerColon(fh) - 1))

MarkerHi(fh) ==
    int(SubSeq(MarkerText(fh), MarkerColon(fh) + 1, Len(MarkerText(fh)) - 1))

\* What the path expander is specified to produce.
ExpectedExpansion(fh) ==
    LET n == Len(arr_re_findall(fh)) IN
    IF n = 0 THEN Return(<<fh>>)
    ELSE IF n >= 2 THEN Raise("ValueError")
    ELSE Return([k \in 1..(IF MarkerHi(fh) > MarkerLo(fh)
                           THEN MarkerHi(fh) - MarkerLo(fh) ELSE 0) |->
                   BeforeMarker(fh) \o str(MarkerLo(fh) + k - 1) \o AfterMarker(fh)])

\* C1: exp_array is a total function of the number of range markers: no
\* marker gives <<fh>>; one marker {lo:hi} gives, in increasing order, fh with
\* the marker replaced by each i in [lo, hi); two or more raise a format
\* error.  For every filename, whatever brace, colon and digit fragments it
\* holds outside the marker.
C1_ExpArrayByMarkerCount ==
    pc = "exp_array" => out = ExpectedExpansion(args.fh)

\* C5: which_compression returns ('.bz2', bz2) whenever prefix.bz2 is
\* readable, otherwise ('.gz', gzip) whenever prefix.gz is readable, otherwise
\* ('', none) whenever the bare prefix is readable; it raises an I/O error if
\* and only if none of the three is readable; the suffix it returns is always
\* that of a readable file.
C5_CompressionPriority ==
    pc = "which_compression" =>
        LET bz == (args.fh \o ".bz2") \in DOMAIN fs
            gz == (args.fh \o ".gz") \in DOMAIN fs
            bare == args.fh \in DOMAIN fs
        IN /\ bz => out = Return(<<".bz2", "bz2">>)
           /\ (~bz /\ gz) => out = Return(<<".gz", "gzip">>)
           /\ (~bz /\ ~gz /\ bare) => out = Return(<<"", "None">>)
           /\ (out.exc = "IOError") <=> (~bz /\ ~gz /\ ~bare)
           /\ out.exc \in {"None", "IOError"}
           /\ Returned(out) => (args.fh \o out.val[1]) \in DOMAIN fs

\* C5 witness: all three files are readable and the probe answered bz2.
C5_Witness ==
    /\ pc = "which_compression"
    /\ {args.fh \o s : s \in Suffixes} \subseteq DOMAIN fs
    /\ out = Return(<<".bz2", "bz2">>)

(***************************************************************************)
(* Per-chromosome LD Score and cts files.                                   *)
(***************************************************************************)
CodecOf(suffix) ==
    CASE suffix = ".bz2" -> "bz2" [] suffix = ".gz" -> "gzip" [] OTHER -> "None"

\* A filename pattern with the names of its chromosome shards.
ChrPatterns ==
    { [fh |-> "c", shards |-> <<"c">>],
      [fh |-> "ld", shards |-> <<"ld">>],
      [fh |-> "c{1:2}", shards |-> <<"c1">>],
      [fh |-> "{1:3}", shards |-> <<"1", "2">>],
      [fh |-> "{2:2}", shards |-> <<>>] }

\* Rows of an .l2.ldscore file, columns CHR SNP BP L2
LdColumns == <<"CHR", "SNP", "BP", "L2">>

LdRows == {<<c, snp, bp, l2>> : c \in 1..2, snp \in {"rs1", "rs2"},
                                bp \in 1..2, l2 \in 1..2}

\* the same rows in the layout of v<1.0.0, columns CHR SNP BP CM MAF L2
LegacyColumns == <<"CHR", "SNP", "BP", "CM", "MAF", "L2">>

LegacyRow(r) == <<r[1], r[2], r[3], 0, 50, r[4]>>

LdFrame(rows, legacy) ==
    IF legacy THEN Frame(LegacyColumns, [k \in 1..Len(rows) |-> LegacyRow(rows[k])])
    ELSE Frame(LdColumns, rows)

RECURSIVE TotalLen(_)
TotalLen(ss) == IF Len(ss) = 0 THEN 0 ELSE Len(Head(ss)) + TotalLen(Tail(ss))

\* The files name+suffix (suffix in S) of every shard, holding tabs[i]
ShardFiles(names, ext, S, tabs, legacy) ==
    LET paths == {names[i] \o ext \o x : i \in 1..Len(names), x \in S}
        shard(p) == CHOOSE i \in 1..Len(names) : \E x \in S : p = names[i] \o ext \o x
        suffix(p) == CHOOSE x \in S : p = names[shard(p)] \o ext \o x
    IN [p \in paths |->
           [codec |-> CodecOf(suffix(p)), table |-> LdFrame(tabs[shard(p)], legacy)]]

InitChr ==
    /\ pc = "idle"
    /\ out = Raise("NotCalled")
    /\ \E pat \in ChrPatterns, ext \in {".l2.ldscore", ""}, S \in SUBSET Suffixes,
          legacy \in BOOLEAN :
          \E tabs \in [1..Len(pat.shards) -> SeqsUpTo(LdRows, MaxRows)] :
             /\ TotalLen(tabs) <= MaxRows
             /\ args = [fh |-> pat.fh, shards |-> pat.shards]
             /\ fs = ShardFiles(pat.shards, ext, S, tabs, legacy)

LdscoreChr ==
    /\ pc = "idle"
    /\ pc' = "_ldscore_chr"
    /\ out' = _ldscore_chr(args.fh)
    /\ UNCHANGED <<fs, args>>

CtsChr ==
    /\ pc = "idle"
    /\ pc' = "_cts_chr"
    /\ out' = _cts_chr(args.fh)
    /\ UNCHANGED <<fs, args>>

NextChr == LdscoreChr \/ CtsChr

SpecChr == InitChr /\ [][NextChr]_vars

(***************************************************************************)
(* LD Score chromosome merge: the claim.                                    *)
(***************************************************************************)
\* the file of a shard that the probing order selects
ShardFile(name) ==
    IF (name \o ".l2.ldscore.bz2") \in DOMAIN fs THEN name \o ".l2.ldscore.bz2"
    ELSE IF (name \o ".l2.ldscore.gz") \in DOMAIN fs THEN name \o ".l2.ldscore.gz"
    ELSE name \o ".l2.ldscore"

ShardReadable(name) == ShardFile(name) \in DOMAIN fs

\* the parsed shard, without the legacy MAF and CM columns
ShardTable(name) ==
    LET t == fs[ShardFile(name)].table IN
    IF HasCol(t, "MAF") /\ HasCol(t, "CM") THEN drop(t, {"MAF", "CM"}) ELSE t

\* all shards stacked in shard order, sorted by (CHR, BP), CHR and BP
\* dropped, the first row of every SNP kept
ExpectedLdMerge(names) ==
    LET tables == [i \in 1..Len(names) |-> ShardTable(names[i])]
        stacked == Frame(tables[1].columns, StackRows(tables))
    IN drop_duplicates_SNP(drop(sort_CHR_BP(stacked), {"CHR", "BP"}))

\* C4: for every filename pattern, of any length, that expands to k >= 1
\* shards, all readable, _ldscore_chr succeeds and returns the shards stacked
\* in shard order, sorted by (CHR, BP), without CHR and BP, with only the
\* first row of every SNP.
C4_LdscoreChrMergesAnyPattern ==
    (/\ pc = "_ldscore_chr"
     /\ Len(args.shards) >= 1
     /\ \A i \in 1..Len(args.shards) : ShardReadable(args.shards[i]))
    => /\ Returned(out)
       /\ out.val = ExpectedLdMerge(args.shards)

\* The merge as the code performs it: only when the pattern has as many
\* characters as it has shards.
LdscoreChrMergesWhenLenIsShards ==
    (/\ pc = "_ldscore_chr"
     /\ Len(args.shards) >= 1
     /\ Len(args.fh) = Len(args.shards)
     /\ \A i \in 1..Len(args.shards) : ShardReadable(args.shards[i]))
    => /\ Returned(out)
       /\ out.val = ExpectedLdMerge(args.shards)

(***************************************************************************)
(* Annotation files.  A file system is built from <<path, codec, table>>    *)
(* triples.                                                                 *)
(***************************************************************************)
MkFs(files) ==
    [p \in {f[1] : f \in files} |->
        LET f == CHOOSE g \in files : g[1] = p IN [codec |-> f[2], table |-> f[3]]]

\* the files name+suffix, suffix in S, all holding the table
Stored(name, S, table) == {<<name \o x, CodecOf(x), table>> : x \in S}

\* The SNP of row k
rs(k) == "rs" \o str(k)

\* An .annot file with the annotation values a[k] (a tuple) in row k
AnnotFrame(cols, a) ==
    Frame(<<"CHR", "BP", "SNP", "CM">> \o cols,
          [k \in 1..Len(a) |-> <<1, k, rs(k), 0>> \o a[k]])

\* A .frq file with the frequency f[k] (percent) in row k, in a column named
\* FRQ or, by the older layout, MAF
FrqFrame(col, f) == Frame(<<"SNP", col>>, [k \in 1..Len(f) |-> <<rs(k), f[k]>>])

\* the name of chromosome c's file: the chromosome appended
ChrName(fh, c) == fh \o str(c)

\* every name as a single file set and as one file per chromosome
AllSets(name, ext, S, table) ==
    Stored(name \o ext, S, table)
    \cup UNION {Stored(ChrName(name, c) \o ext, S, table) : c \in 1..MaxChr}

InitAnnot ==
    /\ pc = "idle"
    /\ out = Raise("NotCalled")
    /\ \E n \in 1..MaxRows, S \in SUBSET Suffixes, frqcol \in {"FRQ", "MAF"} :
       \E u \in [1..n -> {<<a, b>> : a \in 0..1, b \in 0..1}],
          v \in [1..n -> {<<a>> : a \in 0..1}],
          f \in [1..n -> {1, 50}],
          fh_list \in SeqsUpTo({"u", "v"}, 2),
          num \in {None} \cup {Some(c) : c \in 1..MaxChr},
          frqfile \in {None, Some("f")} :
          /\ Len(fh_list) >= 1
          /\ args = [fh_list |-> fh_list, num |-> num, frqfile |-> frqfile]
          /\ fs = MkFs(AllSets("u", ".annot", S, AnnotFrame(<<"A", "B">>, u))
                       \cup AllSets("v", ".annot", S, AnnotFrame(<<"C">>, v))
                       \cup AllSets("f", ".frq", S, FrqFrame(frqcol, f)))

Annot ==
    /\ pc = "idle"
    /\ pc' = "annot"
    /\ out' = annot(args.fh_list, args.num, args.frqfile)
    /\ UNCHANGED <<fs, args>>

NextAnnot == Annot

SpecAnnot == InitAnnot /\ [][NextAnnot]_vars

(***************************************************************************)
(* Annotation overlap: the claim.                                           *)
(***************************************************************************)
\* the file that the probing order selects for a prefix
Probed(prefix) ==
    IF (prefix \o ".bz2") \in DOMAIN fs THEN prefix \o ".bz2"
    ELSE IF (prefix \o ".gz") \in DOMAIN fs THEN prefix \o ".gz"
    ELSE prefix

\* the rows that pass the frequency filter of the file set named frq (None:
\* all n rows)
PassingRows(frq, n) ==
    IF frq = None THEN 1..n
    ELSE LET t == fs[Probed(frq[1] \o ".frq")].table
             col == IF HasCol(t, "MAF") THEN "MAF" ELSE "FRQ"
         IN {r \in 1..Len(t.rows) : Column(t, col)[r] > 5 /\ Column(t, col)[r] < 95}

\* the annotation columns of one .annot table, each a series
AnnotationColumns(t) ==
    LET keep == {i \in 1..Len(t.columns) :
                    t.columns[i] \notin {"CHR", "BP", "CM", "SNP"}}
        ix == KeepIdx(Len(t.columns), keep)
    IN [k \in 1..Len(ix) |-> ColumnAt(t, ix[k])]

\* the columns of A: the annotation columns of every file of the list, in
\* order, restricted to the rows that pass
RECURSIVE StackedColumns(_, _)
StackedColumns(names, frq) ==
    IF Len(names) = 0 THEN <<>>
    ELSE LET t == fs[Probed(Head(names) \o ".annot")].table
             cols == AnnotationColumns(t)
             keep == PassingRows(frq, Len(t.rows))
         IN [k \in 1..Len(cols) |-> Select(cols[k], keep)]
            \o StackedColumns(Tail(names), frq)

RECURSIVE SeriesDot(_, _)
SeriesDot(x, y) ==
    IF Len(x) = 0 THEN 0 ELSE Head(x) * Head(y) + SeriesDot(Tail(x), Tail(y))

\* A^T * A from the columns of A
Gram(cols) == [i \in 1..Len(cols) |-> [j \in 1..Len(cols) |-> SeriesDot(cols[i], cols[j])]]

\* the names of chromosome c's files
ChrNames(names, c) == [k \in 1..Len(names) |-> ChrName(names[k], c)]

ChrFrq(frq, c) == IF frq = None THEN None ELSE Some(ChrName(frq[1], c))

\* the sum over the chromosomes 1..c of A_c^T * A_c, entry (i, j)
RECURSIVE GramSum(_, _, _, _, _)
GramSum(names, frq, c, i, j) ==
    IF c = 0 THEN 0
    ELSE Gram(StackedColumns(ChrNames(names, c), ChrFrq(frq, c)))[i][j]
         + GramSum(names, frq, c - 1, i, j)

\* the sum over the chromosomes 1..c of the row counts
RECURSIVE RowSum(_, _, _)
RowSum(names, frq, c) ==
    IF c = 0 THEN 0
    ELSE Len(StackedColumns(ChrNames(names, c), ChrFrq(frq, c))[1])
         + RowSum(names, frq, c - 1)

AnnotFilesReadable == \E p \in DOMAIN fs : TRUE

\* C9 (single file set): the matrix is A^T * A and M_tot the row count of A.
AnnotSingleSetOverlap ==
    (pc = "annot" /\ args.num = None /\ AnnotFilesReadable)
    => LET cols == StackedColumns(args.fh_list, args.frqfile) IN
       /\ Returned(out)
       /\ out.val.x.m = Gram(cols)
       /\ out.val.M_tot = Len(cols[1])

\* C9 (per chromosome): the matrix is the sum over c = 1..num of
\* A_c^T * A_c and M_tot the sum of the row counts.
AnnotPerChromosomeOverlap ==
    (pc = "annot" /\ args.num # None /\ AnnotFilesReadable)
    => LET n == Len(StackedColumns(ChrNames(args.fh_list, 1),
                                   ChrFrq(args.frqfile, 1)))
       IN /\ Returned(out)
          /\ out.val.x.m = [i \in 1..n |-> [j \in 1..n |->
                 GramSum(args.fh_list, args.frqfile, args.num[1], i, j)]]
          /\ out.val.M_tot = RowSum(args.fh_list, args.frqfile, args.num[1])

\* C9: annot returns, per chromosome, the sum over c = 1..num of A_c^T * A_c
\* with M_tot the sum of the row counts, and, for a single file set, A^T * A
\* with M_tot the row count; A being the non-key columns of every annotation
\* file side by side, after the optional frequency filter.
C9_AnnotOverlapAggregation == AnnotSingleSetOverlap /\ AnnotPerChromosomeOverlap

(***************************************************************************)
(* Sideways merges.  The files "a" and "b" (and a.annot, b.annot) exist     *)
(* under every suffix of S, in one of three layouts.                        *)
(***************************************************************************)
\* the table of a file with the given SNP column
ListFrame(name, snps, layout) ==
    LET val == IF name = "a" THEN 1 ELSE 2 IN
    IF layout = "cts"
    THEN Frame(<<"SNP", "X">>, [k \in 1..Len(snps) |-> <<snps[k], val>>])
    ELSE LdFrame([k \in 1..Len(snps) |-> <<1, snps[k], k, val>>], layout = "legacy")

ListFiles(name, S, table) ==
    Stored(name, S, table) \cup Stored(name \o ".annot", S, table)

InitList ==
    /\ pc = "idle"
    /\ out = Raise("NotCalled")
    /\ \E flist \in SeqsUpTo({"a", "b"}, MaxFiles), S \in SUBSET Suffixes,
          layout \in {"cts", "ld", "legacy"} :
       \E sa \in SeqsUpTo({"rs1", "rs2"}, MaxRows),
          sb \in SeqsUpTo({"rs1", "rs2"}, MaxRows) :
          /\ Len(flist) >= 1
          /\ args = [flist |-> flist]
          /\ fs = MkFs(ListFiles("a", S, ListFrame("a", sa, layout))
                       \cup ListFiles("b", S, ListFrame("b", sb, layout)))

\* _read_fromlist with a parser that is given the codec: the list holds the
\* full paths name+suffix
ReadFromlist ==
    /\ pc = "idle"
    /\ pc' = "_read_fromlist"
    /\ \E x \in Suffixes :
          /\ args' = [flist |-> [i \in 1..Len(args.flist) |-> args.flist[i] \o x],
                      compression |-> CodecOf(x)]
          /\ out' = _read_fromlist(args'.flist, "_ldscore_single", "LD Score",
                                   <<args'.compression>>, <<>>)
    /\ UNCHANGED fs

CtsFromlist ==
    /\ pc = "idle"
    /\ pc' = "cts_fromlist"
    /\ out' = cts_fromlist(args.flist)
    /\ UNCHANGED <<fs, args>>

LdscoreFromlist ==
    /\ pc = "idle"
    /\ pc' = "ldscore_fromlist"
    /\ out' = ldscore_fromlist(args.flist)
    /\ UNCHANGED <<fs, args>>

AnnotFromlist ==
    /\ pc = "idle"
    /\ pc' = "annot_fromlist"
    /\ \E frqfile \in {None, Some("f")} :
          /\ args' = [flist |-> args.flist, frqfile |-> frqfile]
          /\ out' = annot_fromlist(args.flist, frqfile)
    /\ UNCHANGED fs

NextList == ReadFromlist \/ CtsFromlist \/ LdscoreFromlist \/ AnnotFromlist

SpecList == InitList /\ [][NextList]_vars

(***************************************************************************)
(* Sideways merges: the claims.                                             *)
(***************************************************************************)
\* the SNP column of the parsed input at a path
KeyColumn(path) == Column(fs[path].table, "SNP")

\* two key columns differ in length or in the value at some position
KeysDiffer(x, y) ==
    Len(x) # Len(y) \/ \E k \in 1..Len(x) : k <= Len(y) /\ x[k] # y[k]

\* C2: _read_fromlist is order-sensitive on the key column: if the SNP column
\* of some input i > 0 differs from that of input 0 in length or in the value
\* at any position, the merge raises a validation error and returns no
\* table; if every input's SNP column equals input 0's, none is raised.
C2_MergeIsOrderSensitive ==
    (/\ pc = "_read_fromlist"
     /\ \A i \in 1..Len(args.flist) : args.flist[i] \in DOMAIN fs)
    => LET differs(i) == KeysDiffer(KeyColumn(args.flist[i]), KeyColumn(args.flist[1]))
       IN /\ (\E i \in 2..Len(args.flist) : differs(i)) => out.exc = "ValueError"
          /\ (\A i \in 2..Len(args.flist) : ~differs(i)) => Returned(out)

\* C2 witness: the second input holds the SNPs of the first in another order
\* and the merge raised the validation error.
C2_Witness ==
    /\ pc = "_read_fromlist"
    /\ Len(args.flist) = 2
    /\ \A i \in 1..2 : args.flist[i] \in DOMAIN fs
    /\ KeyColumn(args.flist[1]) = <<"rs1", "rs2">>
    /\ KeyColumn(args.flist[2]) = <<"rs2", "rs1">>
    /\ out.exc = "ValueError"

\* the parsed input of a list reader: the file the probing order selects,
\* without the legacy MAF and CM columns
ListInput(name) ==
    LET t == fs[Probed(name)].table IN
    IF HasCol(t, "MAF") /\ HasCol(t, "CM") THEN drop(t, {"MAF", "CM"}) ELSE t

\* the non-key columns of input i (zero-based i), renamed c_i
RECURSIVE MergedColumns(_, _)
MergedColumns(names, i) ==
    IF i >= Len(names) THEN <<>>
    ELSE rename_suffix(drop(ListInput(names[i + 1]), {"SNP"}), "_" \o str(i)).columns
         \o MergedColumns(names, i + 1)

RECURSIVE MergedRow(_, _, _)
MergedRow(names, i, r) ==
    IF i >= Len(names) THEN <<>>
    ELSE drop(ListInput(names[i + 1]), {"SNP"}).rows[r] \o MergedRow(names, i + 1, r)

\* SNP once and first, then every input's non-key columns in input order
ExpectedSideways(names) ==
    LET snp == Column(ListInput(names[1]), "SNP") IN
    Frame(<<"SNP">> \o MergedColumns(names, 0),
          [r \in 1..Len(snp) |-> <<snp[r]>> \o MergedRow(names, 0, r)])

PairwiseDistinct(q) == \A i, j \in 1..Len(q) : i # j => q[i] # q[j]

\* C3: cts_fromlist, ldscore_fromlist and annot_fromlist, given n >= 1
\* inputs (readable, the key column first) whose SNP columns are identical,
\* succeed and return one table: SNP
\* first and once, then the non-key columns of input 0, 1, ..., n-1 in input
\* order, every one renamed c_i; as many rows as the SNP column; all column
\* names distinct.
C3_ListReadersLayout ==
    (/\ pc \in {"cts_fromlist", "ldscore_fromlist", "annot_fromlist"}
     /\ \A i \in 1..Len(args.flist) : Probed(args.flist[i]) \in DOMAIN fs
     /\ \A i \in 1..Len(args.flist) : ListInput(args.flist[i]).columns[1] = "SNP"
     /\ \A i \in 1..Len(args.flist) :
           Column(ListInput(args.flist[i]), "SNP")
               = Column(ListInput(args.flist[1]), "SNP"))
    => /\ Returned(out)
       /\ out.val = ExpectedSideways(args.flist)
       /\ PairwiseDistinct(out.val.columns)

(***************************************************************************)
(* Specification SpecCut: one call of _cut_cts on a covariate vector and a  *)
(* breakpoint list.                                                         *)
(***************************************************************************)
CutVals == {1, 2, 3}

BreakVals == {0, 1, 2, 3, 4}

InitCut ==
    /\ pc = "idle"
    /\ out = Raise("NotCalled")
    /\ \E unique \in BOOLEAN : fs = [pandas_unique_bins |-> unique]
    /\ \E n \in 1..MaxRows :
       \E values \in [1..n -> CutVals], breaks \in SeqsUpTo(BreakVals, MaxBreaks) :
          args = [vec |-> Series("int64", values), breaks |-> breaks, n |-> "X"]

CutCts ==
    /\ pc = "idle"
    /\ pc' = "_cut_cts"
    /\ out' = _cut_cts(args.vec, args.breaks, args.n)
    /\ UNCHANGED <<fs, args>>

NextCut == CutCts

SpecCut == InitCut /\ [][NextCut]_vars

(***************************************************************************)
(* Claims on _cut_cts.                                                      *)
(***************************************************************************)
StartsWith(s, pre) == Len(s) >= Len(pre) /\ SubSeq(s, 1, Len(pre)) = pre

CutReturned == pc = "_cut_cts" /\ Returned(out)

\* rows of the vector whose value is a user-supplied breakpoint
AtBreakpoint == {r \in 1..Len(args.vec.values) : args.vec.values[r] \in Range(args.breaks)}

\* C7 (as stated): a value equal to a user breakpoint b is put in the bin
\* whose lower bound is b, the bin labelled <prefix>b_<next bound>, never in
\* the bin whose upper bound is b
C7_BreakpointLowerInclusive ==
    CutReturned =>
        \A r \in AtBreakpoint :
            /\ StartsWith(out.val.values[r], args.n \o str(args.vec.values[r]) \o "_")
            /\ ~endswith(out.val.values[r], "_" \o str(args.vec.values[r]))

\* C7 (amended): a value equal to a user breakpoint b is put in the bin whose
\* upper bound is b, the bin labelled <prefix><previous bound>_b, never in the
\* bin whose lower bound is b: the intervals are open below and closed above
C7_BreakpointUpperInclusive ==
    CutReturned =>
        \A r \in AtBreakpoint :
            /\ endswith(out.val.values[r], "_" \o str(args.vec.values[r]))
            /\ ~StartsWith(out.val.values[r], args.n \o str(args.vec.values[r]) \o "_")

C7_Witness == CutReturned /\ AtBreakpoint # {}

\* the sentinels the claim names: the upper one is appended when every
\* breakpoint is <= the maximum, the lower one when every one is >= the minimum
UpperAppended == \A k \in 1..Len(args.breaks) : args.breaks[k] <= Max(Range(args.vec.values))

LowerAppended == \A k \in 1..Len(args.breaks) : args.breaks[k] >= Min(Range(args.vec.values))

CutPoints ==
    Len(args.breaks) + (IF UpperAppended THEN 1 ELSE 0) + (IF LowerAppended THEN 1 ELSE 0)

\* C8: whenever _cut_cts returns, every value of the vector, its minimum and
\* maximum included, has one of the bins (none is left missing), whichever
\* sentinels were appended, and there are as many labels as cut points minus one
C8_BinnerCoverage ==
    CutReturned =>
        /\ \A r \in 1..Len(args.vec.values) :
              /\ out.val.values[r] # NaN
              /\ \E j \in 1..Len(out.val.levels) : out.val.values[r] = out.val.levels[j]
        /\ Len(out.val.levels) = CutPoints - 1

C8_Witness ==
    /\ CutReturned
    /\ LowerAppended
    /\ ~UpperAppended
    /\ Len(args.vec.values) >= 2

(***************************************************************************)
(* Specification SpecCts: one call of cts_dummies on a table of the key     *)
(* column SNP and covariate columns.  The key is a string per row, or a     *)
(* number per row.                                                          *)
(***************************************************************************)
CovVals == {1, 3}

CtsBreakLists == {<<2>>, <<1, 2>>, <<5>>}

CovName(k) == "C" \o str(k)

CtsFrame(snp_dtype, cov) ==
    LET n == Len(cov)
        m == Len(cov[1])
    IN [columns |-> <<"SNP">> \o [k \in 1..m |-> CovName(k)],
        dtypes |-> <<snp_dtype>> \o [k \in 1..m |-> "int64"],
        rows |-> [r \in 1..n |->
                    <<IF snp_dtype = "int64" THEN r ELSE rs(r)>> \o cov[r]]]

InitCts ==
    /\ pc = "idle"
    /\ out = Raise("NotCalled")
    /\ \E unique \in BOOLEAN : fs = [pandas_unique_bins |-> unique]
    /\ \E n \in 1..MaxRows, m \in 1..MaxCov, snp_dtype \in {"object", "int64"},
          L \in 0..(MaxCov + 1) :
       \E cov \in [1..n -> [1..m -> CovVals]], breaks \in [1..L -> CtsBreakLists] :
          args = [cts |-> CtsFrame(snp_dtype, cov), breaks |-> breaks]

CtsDummies ==
    /\ pc = "idle"
    /\ pc' = "cts_dummies"
    /\ out' = cts_dummies(args.cts, args.breaks)
    /\ UNCHANGED <<fs, args>>

NextCts == CtsDummies

SpecCts == InitCts /\ [][NextCts]_vars

(***************************************************************************)
(* Claims on cts_dummies.                                                   *)
(***************************************************************************)
DummiesReturned == pc = "cts_dummies" /\ Returned(out)

\* the indicator columns of a returned row: all but the key
Indicators(r) == Tail(out.val.rows[r])

\* C6 (as stated): whenever cts_dummies returns a table, the indicator
\* columns of every row sum to exactly 1
C6_RowSumIsOne ==
    DummiesReturned => \A r \in 1..Len(out.val.rows) : SumSeq(Indicators(r)) = 1

\* C6 (amended): whenever cts_dummies returns a table, the indicator columns
\* of every row sum to the number of breakpoint sequences, one indicator for
\* each binned column
C6_RowSumIsNumberOfBinnedColumns ==
    DummiesReturned =>
        \A r \in 1..Len(out.val.rows) : SumSeq(Indicators(r)) = Len(args.breaks)

C6_Witness == DummiesReturned /\ Len(args.breaks) = 2 /\ Len(out.val.rows) = 2

\* the pairing the claim states: the k-th breakpoint sequence bins the k-th
\* covariate, the column after the key at the zero-based position k
IntendedCut(k) ==
    _cut_cts(ix_column(args.cts, k), args.breaks[k], args.cts.columns[k + 1])

IntendedTable ==
    concat_axis1(<<Frame(<<"SNP">>,
                         [r \in 1..Len(args.cts.rows) |-> <<args.cts.rows[r][1]>>])>>
                 \o [k \in 1..Len(args.breaks) |-> get_dummies(IntendedCut(k).val)]).val

\* C10: cts_dummies bins exactly the covariate columns, the k-th breakpoint
\* sequence applied to the k-th covariate and the key column SNP never
\* binned; a number of sequences other than the number of columns minus one
\* is a validation error
C10_ColumnBreakpointPairing ==
    pc = "cts_dummies" =>
        IF Len(args.breaks) # Len(args.cts.columns) - 1
        THEN out = Raise("ValueError")
        ELSE (\A k \in 1..Len(args.breaks) : Returned(IntendedCut(k)))
             => /\ Returned(out)
                /\ out.val = IntendedTable

====
